---- MODULE Spec2Model ----
(***************************************************************************)
(* MarketAnalyzer: the decision rule (strategy.py), the forecast selector  *)
(* (forecasting.py), the feature builder (features.py) and the indicator   *)
(* engine (indicators.py).  Each component is an object with its own       *)
(* state; each has its own specification below.                            *)
(*                                                                         *)
(* Numbers.  The code computes in IEEE-754 doubles.  The model keeps a     *)
(* value as an exact fraction, or as +inf, -inf or NaN where the double    *)
(* arithmetic produces these (x/0, 0/0, NaN propagation).  Rounding of     *)
(* finite results is not modelled.                                         *)
(***************************************************************************)
EXTENDS Integers, Sequences, FiniteSets, TLC

VARIABLES
    \* TradingStrategy (strategy.py)
    last_close, predicted_price, threshold, num_type, st_result,
    \* TechnicalIndicators (indicators.py)
    data, ind_call, ind_out,
    \* FeatureEngineer (features.py)
    fe_df, fe_call, fe_lagcall,
    \* PriceForecaster (forecasting.py)
    fc_n, fc_fit, fc_self, fc_call, fc_completed

st_vars  == <<last_close, predicted_price, threshold, num_type, st_result>>
ind_vars == <<data, ind_call, ind_out>>
fe_vars  == <<fe_df, fe_call, fe_lagcall>>
fc_vars  == <<fc_n, fc_fit, fc_self, fc_call, fc_completed>>
vars     == <<st_vars, ind_vars, fe_vars, fc_vars>>

-----------------------------------------------------------------------------
(* Double arithmetic on exact fractions extended with inf and NaN.         *)

Abs(x) == IF x < 0 THEN -x ELSE x
Sign(x) == IF x < 0 THEN -1 ELSE IF x > 0 THEN 1 ELSE 0

RECURSIVE Gcd(_, _)
Gcd(a, b) == IF b = 0 THEN a ELSE Gcd(b, a % b)

\* the fraction n/d (d # 0) in lowest terms with a positive denominator
Fin(n, d) ==
    LET g == Gcd(Abs(n), Abs(d))
        s == IF d < 0 THEN -1 ELSE 1
    IN  [k |-> "fin", n |-> s * (n \div g), d |-> (s * d) \div g]

Num(i) == [k |-> "fin", n |-> i, d |-> 1]
Inf(s) == [k |-> "inf", n |-> s, d |-> 0]
NaN    == [k |-> "nan", n |-> 0, d |-> 0]
\* an exception in place of a value
Raised(name) == [k |-> name, n |-> 0, d |-> 0]

IsNaN(x) == x.k = "nan"
IsFin(x) == x.k = "fin"

\* x < y on doubles: false as soon as one side is NaN
XLess(x, y) ==
    IF IsNaN(x) \/ IsNaN(y) THEN FALSE
    ELSE IF x.k = "inf" THEN x.n < 0 /\ ~(y.k = "inf" /\ y.n < 0)
    ELSE IF y.k = "inf" THEN y.n > 0
    ELSE x.n * y.d < y.n * x.d

XNeg(x) == IF IsFin(x) THEN [x EXCEPT !.n = -x.n]
           ELSE IF x.k = "inf" THEN Inf(-x.n) ELSE NaN

XAdd(x, y) ==
    IF IsNaN(x) \/ IsNaN(y) THEN NaN
    ELSE IF x.k = "inf" /\ y.k = "inf" THEN (IF x.n = y.n THEN x ELSE NaN)
    ELSE IF x.k = "inf" THEN x
    ELSE IF y.k = "inf" THEN y
    ELSE Fin(x.n * y.d + y.n * x.d, x.d * y.d)

XSub(x, y) == XAdd(x, XNeg(y))

\* product of two finite values
XMul(x, y) == Fin(x.n * y.n, x.d * y.d)

\* numpy/pandas division: x/0 is +-inf, 0/0 is NaN, no exception
XDiv(x, y) ==
    IF IsNaN(x) \/ IsNaN(y) THEN NaN
    ELSE IF x.k = "inf" THEN (IF y.k = "inf" THEN NaN
                              ELSE Inf(x.n * (IF y.n < 0 THEN -1 ELSE 1)))
    ELSE IF y.k = "inf" THEN Num(0)
    ELSE IF y.n = 0 THEN (IF x.n = 0 THEN NaN ELSE Inf(Sign(x.n)))
    ELSE Fin(x.n * y.d, x.d * y.n)

-----------------------------------------------------------------------------
(* TradingStrategy                                                         *)

\* bounds of the decision rule's inputs: prices are integers, thresholds
\* are multiples of the default threshold 0.01 = 1/ThresholdScale
MaxPrice == 101
MaxThreshold == 2
ThresholdScale == 100

Prices == -MaxPrice .. MaxPrice
Thresholds == {Fin(t, ThresholdScale) : t \in -MaxThreshold .. MaxThreshold}
\* a builtin int/float raises on division by zero, a numpy.float64 (what a
\* pandas column hands out) does not
NumTypes == {"python", "numpy"}

Recommendations == {"BUY", "SELL", "HOLD"}

\* strategy.py:27.  The value of `change`, or the exception of the division.
Change(lc, pp, nt) ==
    IF lc = 0 /\ nt = "python" THEN Raised("ZeroDivisionError")
    ELSE XDiv(Num(pp - lc), Num(lc))

\* buggy variant: the boundary compared with >= instead of >
RecommendMutInclusive(lc, pp, th, nt) ==
    LET change == Change(lc, pp, nt) IN
    IF change.k = "ZeroDivisionError" THEN change.k
    ELSE IF ~XLess(change, th) /\ ~IsNaN(change) THEN "BUY"
    ELSE IF XLess(change, XNeg(th)) THEN "SELL"
    ELSE "HOLD"

\* strategy.py:22-34
Recommend(lc, pp, th, nt) ==
    LET change == Change(lc, pp, nt) IN
    IF change.k = "ZeroDivisionError" THEN change.k
    ELSE IF XLess(th, change) THEN "BUY"
    ELSE IF XLess(change, XNeg(th)) THEN "SELL"
    ELSE "HOLD"

\* strategy.py:7-20: the constructor stores its three arguments unchecked
StrategyInit ==
    /\ last_close \in Prices
    /\ predicted_price \in Prices
    /\ threshold \in Thresholds
    /\ num_type \in NumTypes
    /\ st_result = "none"

StrategyIdle ==
    /\ last_close = 1 /\ predicted_price = 1 /\ threshold = Fin(1, ThresholdScale)
    /\ num_type = "python" /\ st_result = "none"

\* a call of recommend()
RecommendCall ==
    /\ st_result' = Recommend(last_close, predicted_price, threshold, num_type)
    /\ UNCHANGED <<last_close, predicted_price, threshold, num_type>>
    /\ UNCHANGED <<ind_vars, fe_vars, fc_vars>>

-----------------------------------------------------------------------------
(* TechnicalIndicators                                                     *)

\* bounds: length of the Close column, its values, the window arguments
MaxLen == 4
MaxClose == 2
MaxWindow == 3

RECURSIVE SeqsUpTo(_, _)
SeqsUpTo(S, n) ==
    IF n = 0 THEN {<<>>}
    ELSE LET shorter == SeqsUpTo(S, n - 1)
         IN  shorter \cup {Append(q, x) : q \in {r \in shorter : Len(r) = n - 1}, x \in S}

CloseSeries == SeqsUpTo(0 .. MaxClose, MaxLen) \ {<<>>}
Windows == 0 .. MaxWindow

NoCall == [op |-> "none", window |-> 0, err |-> "none"]

\* the column as doubles
AsColumn(close) == [i \in 1 .. Len(close) |-> Num(close[i])]

\* indicators.py:55, 74, 95 (an int argument)
ValidWindow(window) == window > 0

\* pandas Rolling.mean (indicators.py:58, 102-103): one pass over the rows
\* that adds the entering observation and removes the one that leaves the
\* window, counting the non-missing observations held.  acc = <<sum, nobs>>.
RECURSIVE RollAcc(_, _, _)
RollAcc(s, window, i) ==
    IF i = 0 THEN <<Num(0), 0>>
    ELSE LET prev  == RollAcc(s, window, i - 1)
             added == IF IsNaN(s[i]) THEN prev
                      ELSE <<XAdd(prev[1], s[i]), prev[2] + 1>>
         IN  IF i - window >= 1 /\ ~IsNaN(s[i - window])
             THEN <<XSub(added[1], s[i - window]), added[2] - 1>>
             ELSE added

\* buggy variant: the observation leaving the window is never removed
RollingMeanMutNoRemove(s, window) ==
    [i \in 1 .. Len(s) |->
        LET acc == RollAcc(s, Len(s) + window, i)
        IN  IF acc[2] >= window THEN XDiv(acc[1], Num(acc[2])) ELSE NaN]

\* rolling(window).mean(): min_periods defaults to the window
RollingMean(s, window) ==
    [i \in 1 .. Len(s) |->
        LET acc == RollAcc(s, window, i)
        IN  IF acc[2] >= window THEN XDiv(acc[1], Num(acc[2])) ELSE NaN]

\* Series.diff() (indicators.py:98)
Diff(s) == [i \in 1 .. Len(s) |-> IF i = 1 THEN NaN ELSE XSub(s[i], s[i - 1])]

\* Series.clip(lower=0) and -Series.clip(upper=0) (indicators.py:99-100)
ClipLower0(s) == [i \in 1 .. Len(s) |->
                    IF IsNaN(s[i]) THEN NaN
                    ELSE IF XLess(s[i], Num(0)) THEN Num(0) ELSE s[i]]
ClipUpper0(s) == [i \in 1 .. Len(s) |->
                    IF IsNaN(s[i]) THEN NaN
                    ELSE IF XLess(Num(0), s[i]) THEN Num(0) ELSE s[i]]
NegSeries(s) == [i \in 1 .. Len(s) |-> XNeg(s[i])]

\* indicators.py:58
Sma(close, window) == RollingMean(AsColumn(close), window)

\* indicators.py:98-108.  The sign of a zero is not kept: x/+0 and x/-0
\* differ in the sign of the infinity, and 100 - 100/(1 + rs) is 100 for
\* both; 0/+0 and 0/-0 are both NaN.
Rsi(close, window) ==
    LET delta    == Diff(AsColumn(close))
        gain     == ClipLower0(delta)
        loss     == NegSeries(ClipUpper0(delta))
        avg_gain == RollingMean(gain, window)
        avg_loss == RollingMean(loss, window)
    IN  [i \in 1 .. Len(close) |->
            LET rs == XDiv(avg_gain[i], avg_loss[i])
            IN  XSub(Num(100), XDiv(Num(100), XAdd(Num(1), rs)))]

\* indicators.py:11-32: the constructor keeps a copy of a non-empty table
\* with a Close column
IndicatorsInit ==
    /\ data \in CloseSeries
    /\ ind_call = NoCall
    /\ ind_out = <<>>

IndicatorsIdle ==
    /\ data = <<1>> /\ ind_call = NoCall /\ ind_out = <<>>

\* sma(window), indicators.py:34-58
SmaCall(window) ==
    /\ IF ~ValidWindow(window)
       THEN /\ ind_call' = [op |-> "sma", window |-> window, err |-> "ValueError"]
            /\ ind_out' = <<>>
       ELSE /\ ind_call' = [op |-> "sma", window |-> window, err |-> "none"]
            /\ ind_out' = Sma(data, window)
    /\ UNCHANGED data
    /\ UNCHANGED <<st_vars, fe_vars, fc_vars>>

\* rsi(window), indicators.py:79-108
RsiCall(window) ==
    /\ IF ~ValidWindow(window)
       THEN /\ ind_call' = [op |-> "rsi", window |-> window, err |-> "ValueError"]
            /\ ind_out' = <<>>
       ELSE /\ ind_call' = [op |-> "rsi", window |-> window, err |-> "none"]
            /\ ind_out' = Rsi(data, window)
    /\ UNCHANGED data
    /\ UNCHANGED <<st_vars, fe_vars, fc_vars>>

IndicatorsNext ==
    \/ \E window \in Windows : SmaCall(window)
    \/ \E window \in Windows : RsiCall(window)

-----------------------------------------------------------------------------
(* FeatureEngineer                                                         *)

\* bounds: rows of the builder's table, the lags asked for and how many of
\* them in one call
MaxTable == 3
MaxLag == 2
MaxLags == 2

LagLists == SeqsUpTo(0 .. MaxLag, MaxLags)

\* column names: Close, Close_lag_<k>, Return, Volatility
ColClose      == <<"Close", 0>>
ColLag(lag)   == <<"Close_lag", lag>>
ColReturn     == <<"Return", 0>>
ColVolatility == <<"Volatility", 0>>

\* The working table: idx[i] is the row's position in the table the builder
\* was constructed with, cols maps a column name to its cells.
NRows(df) == Len(df.idx)
Columns(df) == DOMAIN df.cols
SetColumn(df, name, cells) ==
    [df EXCEPT !.cols = [c \in DOMAIN df.cols \cup {name} |->
                            IF c = name THEN cells ELSE df.cols[c]]]

\* Series.shift(lag) (features.py:36)
Shift(s, lag) == [i \in 1 .. Len(s) |-> IF i - lag >= 1 THEN s[i - lag] ELSE NaN]

\* Series.pct_change() (features.py:47): s / s.shift(1) - 1
PctChange(s) ==
    LET prev == Shift(s, 1)
    IN  [i \in 1 .. Len(s) |-> XSub(XDiv(s[i], prev[i]), Num(1))]

RECURSIVE SumFrom(_, _, _)
SumFrom(s, lo, hi) == IF lo > hi THEN Num(0) ELSE XAdd(s[hi], SumFrom(s, lo, hi - 1))

\* sample variance (ddof = 1) of s[lo..hi]
Variance(s, lo, hi) ==
    LET cnt  == hi - lo + 1
        mean == XDiv(SumFrom(s, lo, hi), Num(cnt))
        sq   == [i \in 1 .. Len(s) |-> IF i < lo \/ i > hi THEN Num(0)
                                       ELSE XMul(XSub(s[i], mean), XSub(s[i], mean))]
    IN  XDiv(SumFrom(sq, lo, hi), Num(cnt - 1))

\* Rolling.std() (features.py:67): missing unless the window holds `window`
\* observations, none missing, and more than one of them.  A defined cell
\* is kept as the square root of an exact variance.
RollingStd(s, window) ==
    [i \in 1 .. Len(s) |->
        IF /\ i - window + 1 >= 1
           /\ window > 1
           /\ \A j \in (i - window + 1) .. i : IsFin(s[j])
        THEN LET v == Variance(s, i - window + 1, i)
             IN  [k |-> "sqrt", n |-> v.n, d |-> v.d]
        ELSE NaN]

\* features.py:47-48
AddReturns(df) == SetColumn(df, ColReturn, PctChange(df.cols[ColClose]))

\* buggy variant of the loop below: the shift is one row short
RECURSIVE AddLagsMutShift(_, _, _)
AddLagsMutShift(df, lags, j) ==
    IF j > Len(lags) THEN [df |-> df, err |-> "none"]
    ELSE IF lags[j] <= 0 THEN [df |-> df, err |-> "ValueError"]
    ELSE AddLagsMutShift(
            SetColumn(df, ColLag(lags[j]), Shift(df.cols[ColClose], lags[j] - 1)),
            lags, j + 1)

\* features.py:33-37: the loop from its j-th element on; a non-positive lag
\* raises out of the loop with the columns added so far in place
RECURSIVE AddLags(_, _, _)
AddLags(df, lags, j) ==
    IF j > Len(lags) THEN [df |-> df, err |-> "none"]
    ELSE IF lags[j] <= 0 THEN [df |-> df, err |-> "ValueError"]
    ELSE AddLags(SetColumn(df, ColLag(lags[j]), Shift(df.cols[ColClose], lags[j])),
                 lags, j + 1)

\* features.py:63-68
AddVolatility(df, window) ==
    IF window <= 0 THEN [df |-> df, err |-> "ValueError"]
    ELSE LET withRet == IF ColReturn \notin Columns(df) THEN AddReturns(df) ELSE df
         IN  [df |-> SetColumn(withRet, ColVolatility,
                               RollingStd(withRet.cols[ColReturn], window)),
              err |-> "none"]

RowComplete(df, i) == \A c \in Columns(df) : ~IsNaN(df.cols[c][i])

\* the positions from i on, in order, of the rows without a missing cell
RECURSIVE KeptRows(_, _)
KeptRows(df, i) ==
    IF i > NRows(df) THEN <<>>
    ELSE IF RowComplete(df, i) THEN <<i>> \o KeptRows(df, i + 1)
    ELSE KeptRows(df, i + 1)

\* DataFrame.dropna(inplace=True) (features.py:79)
DropNa(df) ==
    LET rows == KeptRows(df, 1)
    IN  [idx  |-> [r \in 1 .. Len(rows) |-> df.idx[rows[r]]],
         cols |-> [c \in Columns(df) |->
                     [r \in 1 .. Len(rows) |-> df.cols[c][rows[r]]]]]

NoFeCall == [op |-> "none", err |-> "none"]
\* what a successful add_lag_features call was given: how many lags and the
\* largest of them, the rows of the table it found and whether that table
\* had no missing cell
NoLagCall == [valid |-> FALSE, nlags |-> 0, maxlag |-> 0, rows |-> <<>>, complete |-> FALSE]

RECURSIVE MaxOf(_)
MaxOf(q) == IF q = <<>> THEN 0
            ELSE LET m == MaxOf(Tail(q)) IN IF Head(q) > m THEN Head(q) ELSE m

\* a fresh table: rows 1..n, a Close column without missing values
FreshTable(close) ==
    [idx |-> [i \in 1 .. Len(close) |-> i],
     cols |-> [c \in {ColClose} |-> AsColumn(close)]]

PositiveCloseSeries == SeqsUpTo(1 .. MaxClose, MaxTable) \ {<<>>}

\* features.py:11-17: the constructor copies a non-empty table
FeaturesInit ==
    /\ \E close \in PositiveCloseSeries : fe_df = FreshTable(close)
    /\ fe_call = NoFeCall
    /\ fe_lagcall = NoLagCall

FeaturesIdle ==
    /\ fe_df = FreshTable(<<1>>) /\ fe_call = NoFeCall /\ fe_lagcall = NoLagCall

\* add_lag_features(lags), features.py:19-37
AddLagFeaturesCall(lags) ==
    LET r == AddLags(fe_df, lags, 1) IN
    /\ fe_df' = r.df
    /\ fe_call' = [op |-> "add_lag_features", err |-> r.err]
    /\ fe_lagcall' = IF r.err = "none"
                     THEN [valid |-> TRUE, nlags |-> Len(lags), maxlag |-> MaxOf(lags),
                           rows |-> fe_df.idx,
                           complete |-> \A i \in 1 .. NRows(fe_df) : RowComplete(fe_df, i)]
                     ELSE NoLagCall
    /\ UNCHANGED <<st_vars, ind_vars, fc_vars>>

\* add_returns(), features.py:39-48
AddReturnsCall ==
    /\ fe_df' = AddReturns(fe_df)
    /\ fe_call' = [op |-> "add_returns", err |-> "none"]
    /\ fe_lagcall' = NoLagCall
    /\ UNCHANGED <<st_vars, ind_vars, fc_vars>>

\* add_volatility(window), features.py:50-68
AddVolatilityCall(window) ==
    LET r == AddVolatility(fe_df, window) IN
    /\ fe_df' = r.df
    /\ fe_call' = [op |-> "add_volatility", err |-> r.err]
    /\ fe_lagcall' = NoLagCall
    /\ UNCHANGED <<st_vars, ind_vars, fc_vars>>

\* drop_na(), features.py:70-80.  fe_lagcall survives it when the call
\* before was a successful add_lag_features.
DropNaCall ==
    /\ fe_df' = DropNa(fe_df)
    /\ fe_call' = [op |-> "drop_na", err |-> "none"]
    /\ fe_lagcall' = IF fe_call.op = "add_lag_features" THEN fe_lagcall ELSE NoLagCall
    /\ UNCHANGED <<st_vars, ind_vars, fc_vars>>

FeaturesNext ==
    \/ \E lags \in LagLists : AddLagFeaturesCall(lags)
    \/ AddReturnsCall
    \/ \E window \in Windows : AddVolatilityCall(window)
    \/ DropNaCall

-----------------------------------------------------------------------------
(* PriceForecaster                                                         *)

\* bounds: rows of the feature table, finite RMSE values
MaxRows == 6
MaxRmse == 2
\* test_size=0.2 (forecasting.py:26), in percent
TestSizePercent == 20

\* forecasting.py:32-38: the candidates in the dict's insertion order
Candidates == <<"LinearRegression", "RandomForest">>

\* What fitting and scoring one candidate on this table gives
\* (forecasting.py:44-46): an exception out of fit/predict/mean_squared_error,
\* or the RMSE, a double >= 0 that is +inf when the squared errors overflow.
\* Both regressors are deterministic (random_state=42), so it is a function
\* of the table, fixed when the forecaster is constructed.
FitOutcomes == {Num(r) : r \in 0 .. MaxRmse} \cup {Inf(1), Raised("ValueError")}

Rows(n) == [i \in 1 .. n |-> i]

NoSplit == [err |-> "none", train |-> <<>>, test |-> <<>>]

\* buggy variant: the test share rounded down
PrepareDataMutFloor(n) ==
    LET n_test  == (TestSizePercent * n) \div 100
        n_train == n - n_test
    IN  IF n_train = 0 \/ n = 0 THEN [err |-> "ValueError", train |-> <<>>, test |-> <<>>]
        ELSE [err |-> "none",
              train |-> SubSeq(Rows(n), 1, n_train),
              test |-> SubSeq(Rows(n), n_train + 1, n)]

\* forecasting.py:22-27: train_test_split(test_size=0.2, shuffle=False) takes
\* n_test = ceil(0.2 n) rows from the end and raises when no training row
\* is left
PrepareData(n) ==
    LET n_test  == (TestSizePercent * n + 99) \div 100
        n_train == n - n_test
    IN  IF n_train = 0 THEN [err |-> "ValueError", train |-> <<>>, test |-> <<>>]
        ELSE [err |-> "none",
              train |-> SubSeq(Rows(n), 1, n_train),
              test |-> SubSeq(Rows(n), n_train + 1, n)]

\* forecasting.py:40-41, 43-50: the loop from candidate j on.  best_model and
\* best_rmse are locals, name is the attribute self.best_model_name.
RECURSIVE SelectFrom(_, _, _, _, _)
SelectFrom(fit, j, best_model, best_rmse, name) ==
    IF j > Len(Candidates)
    THEN [err |-> "none", model |-> best_model, rmse |-> best_rmse, name |-> name]
    ELSE IF fit[j].k = "ValueError"
    THEN [err |-> "ValueError", model |-> best_model, rmse |-> best_rmse, name |-> name]
    ELSE IF XLess(fit[j], best_rmse)
    THEN SelectFrom(fit, j + 1, Candidates[j], fit[j], Candidates[j])
    ELSE SelectFrom(fit, j + 1, best_model, best_rmse, name)

Untrained == [model |-> "absent", rmse |-> Raised("absent"), best_model_name |-> "absent"]

NoFcCall == [op |-> "none", err |-> "none", model |-> "absent", rmse |-> Raised("absent"),
             split |-> NoSplit, xok |-> TRUE]

\* forecasting.py:15-20: the constructor copies a table that has the target
\* column; no attribute model, rmse or best_model_name exists yet
ForecasterInit ==
    /\ fc_n \in 0 .. MaxRows
    /\ fc_fit \in [1 .. Len(Candidates) -> FitOutcomes]
    /\ fc_self = Untrained
    /\ fc_call = NoFcCall
    /\ fc_completed = FALSE

ForecasterIdle ==
    /\ fc_n = 0 /\ fc_fit = [j \in 1 .. Len(Candidates) |-> Num(0)]
    /\ fc_self = Untrained /\ fc_call = NoFcCall /\ fc_completed = FALSE

\* _prepare_data(), forecasting.py:22-27
PrepareDataCall ==
    LET s == PrepareData(fc_n) IN
    /\ fc_call' = [NoFcCall EXCEPT !.op = "_prepare_data", !.err = s.err, !.split = s]
    /\ UNCHANGED <<fc_n, fc_fit, fc_self, fc_completed>>
    /\ UNCHANGED <<st_vars, ind_vars, fe_vars>>

\* train_and_select_model(), forecasting.py:29-55
TrainAndSelectModelCall ==
    LET s == PrepareData(fc_n)
        r == SelectFrom(fc_fit, 1, "None", Inf(1), fc_self.best_model_name)
    IN
    /\ IF s.err # "none"
       THEN /\ fc_self' = fc_self
            /\ fc_call' = [NoFcCall EXCEPT !.op = "train_and_select_model",
                                           !.err = s.err, !.split = s]
            /\ fc_completed' = fc_completed
       ELSE IF r.err # "none"
       THEN /\ fc_self' = [fc_self EXCEPT !.best_model_name = r.name]
            /\ fc_call' = [NoFcCall EXCEPT !.op = "train_and_select_model",
                                           !.err = r.err, !.split = s]
            /\ fc_completed' = fc_completed
       ELSE /\ fc_self' = [model |-> r.model, rmse |-> r.rmse, best_model_name |-> r.name]
            /\ fc_call' = [NoFcCall EXCEPT !.op = "train_and_select_model",
                                           !.model = r.model, !.rmse = r.rmse, !.split = s]
            /\ fc_completed' = TRUE
    /\ UNCHANGED <<fc_n, fc_fit>>
    /\ UNCHANGED <<st_vars, ind_vars, fe_vars>>

\* forecasting.py:57-60.  xok: X_last is a table the model can predict on.
PredictNext(self, xok) ==
    IF self.model = "absent" THEN "RuntimeError"
    ELSE IF self.model = "None" THEN "AttributeError"
    ELSE IF ~xok THEN "ValueError"
    ELSE "none"

\* predict_next(X_last)
PredictNextCall(xok) ==
    /\ fc_call' = [NoFcCall EXCEPT !.op = "predict_next", !.xok = xok,
                                   !.err = PredictNext(fc_self, xok)]
    /\ UNCHANGED <<fc_n, fc_fit, fc_self, fc_completed>>
    /\ UNCHANGED <<st_vars, ind_vars, fe_vars>>

ForecasterNext ==
    \/ PrepareDataCall
    \/ TrainAndSelectModelCall
    \/ \E xok \in BOOLEAN : PredictNextCall(xok)

-----------------------------------------------------------------------------
(* The specifications, one per component.                                  *)

\* each specification starts its component from every constructed object
\* and leaves the other components' objects as they are
InitStrategy    == StrategyInit /\ IndicatorsIdle /\ FeaturesIdle /\ ForecasterIdle
InitIndicators  == IndicatorsInit /\ StrategyIdle /\ FeaturesIdle /\ ForecasterIdle
InitFeatures    == FeaturesInit /\ StrategyIdle /\ IndicatorsIdle /\ ForecasterIdle
InitLagFeatures == FeaturesInit /\ StrategyIdle /\ IndicatorsIdle /\ ForecasterIdle
InitForecaster  == ForecasterInit /\ StrategyIdle /\ IndicatorsIdle /\ FeaturesIdle

StrategyNext == RecommendCall

\* the builder used for lag features only: add_lag_features and drop_na
LagFeaturesNext ==
    \/ \E lags \in LagLists : AddLagFeaturesCall(lags)
    \/ DropNaCall

SpecStrategy    == InitStrategy /\ [][StrategyNext]_vars
SpecIndicators  == InitIndicators /\ [][IndicatorsNext]_vars
SpecFeatures    == InitFeatures /\ [][FeaturesNext]_vars
SpecLagFeatures == InitLagFeatures /\ [][LagFeaturesNext]_vars
SpecForecaster  == InitForecaster /\ [][ForecasterNext]_vars

-----------------------------------------------------------------------------
(* Properties of the decision rule (SpecStrategy).                         *)

\* change > threshold and change < -threshold for last_close # 0, with
\* change = (predicted_price - last_close) / last_close, by cross
\* multiplication
ChangeAbove ==
    IF last_close > 0
    THEN (predicted_price - last_close) * threshold.d > threshold.n * last_close
    ELSE (predicted_price - last_close) * threshold.d < threshold.n * last_close
ChangeBelow ==
    IF last_close > 0
    THEN (predicted_price - last_close) * threshold.d < (-threshold.n) * last_close
    ELSE (predicted_price - last_close) * threshold.d > (-threshold.n) * last_close

Recommended == st_result # "none"

\* C1 as stated: for last_close # 0, recommend() gives BUY exactly when
\* change > threshold, SELL exactly when change < -threshold, and HOLD in
\* every other case.
C1_DecisionRule ==
    (Recommended /\ last_close # 0) =>
        /\ (st_result = "BUY") <=> ChangeAbove
        /\ (st_result = "SELL") <=> ChangeBelow
        /\ (st_result = "HOLD") <=> (~ChangeAbove /\ ~ChangeBelow)

\* C1 amended: for last_close # 0, recommend() gives BUY exactly when
\* change > threshold, SELL exactly when change < -threshold and not
\* change > threshold, HOLD in every other case; the three numbers decide
\* the result.
C1_DecisionRuleOrdered ==
    (Recommended /\ last_close # 0) =>
        /\ (st_result = "BUY") <=> ChangeAbove
        /\ (st_result = "SELL") <=> (ChangeBelow /\ ~ChangeAbove)
        /\ (st_result = "HOLD") <=> (~ChangeAbove /\ ~ChangeBelow)
        /\ st_result \in Recommendations

\* the boundary case: last_close=100, predicted=101, threshold=0.01 gives HOLD
C1_BoundaryHolds ==
    /\ last_close = 100 /\ predicted_price = 101 /\ threshold = Fin(1, 100)
    /\ st_result = "HOLD"

\* C2: with last_close = 0 recommend() fails: it returns none of BUY, SELL,
\* HOLD, whatever predicted_price and threshold are.
C2_ZeroCloseFails ==
    (Recommended /\ last_close = 0) => st_result \notin Recommendations

-----------------------------------------------------------------------------
(* Properties of the indicators (SpecIndicators).                          *)

RECURSIVE CloseSum(_, _, _)
CloseSum(close, lo, hi) ==
    IF lo > hi THEN 0 ELSE close[hi] + CloseSum(close, lo, hi - 1)

SmaReturned == ind_call.op = "sma" /\ ind_call.err = "none"
RsiReturned == ind_call.op = "rsi" /\ ind_call.err = "none"

\* C7: sma(window) with a positive window returns a series as long as Close,
\* missing exactly in the first window-1 rows, and at every later row equal
\* to the mean of Close over the window rows that end there.
C7_SmaWindow ==
    /\ (ind_call.op = "sma" /\ ind_call.window > 0) => ind_call.err = "none"
    /\ SmaReturned =>
        /\ Len(ind_out) = Len(data)
        /\ \A i \in 1 .. Len(data) :
            /\ IsNaN(ind_out[i]) <=> (i <= ind_call.window - 1)
            /\ (i >= ind_call.window) =>
                 ind_out[i] = Fin(CloseSum(data, i - ind_call.window + 1, i),
                                  ind_call.window)

\* sma(2) on a series of four rows with a mean that is no Close value
C7_SmaWitness ==
    /\ SmaReturned /\ ind_call.window = 2 /\ Len(data) = 4
    /\ IsNaN(ind_out[1]) /\ ind_out[2] = Fin(1, 2) /\ ind_out[4] = Fin(3, 2)

IsConstant(close) == \A i \in 1 .. Len(close) : close[i] = close[1]

\* C8: on a constant Close series rsi(window) raises nothing and gives 100
\* at every row that has a full window of price changes behind it.
C8_ConstantRsiSaturates ==
    /\ (ind_call.op = "rsi" /\ ind_call.window > 0) => ind_call.err = "none"
    /\ (RsiReturned /\ IsConstant(data)) =>
        \A i \in (ind_call.window + 1) .. Len(data) : ind_out[i] = Num(100)

-----------------------------------------------------------------------------
(* Properties of the feature builder (SpecFeatures, SpecLagFeatures).      *)

\* C5: a call that fails leaves the working table as it found it:
\* add_lag_features with a non-positive lag in the list adds no column,
\* add_volatility with a non-positive window adds neither Return nor
\* Volatility.
C5_FailedCallChangesNothing ==
    [][fe_call'.err # "none" => fe_df' = fe_df]_vars

Complete(df) == \A i \in 1 .. NRows(df) : RowComplete(df, i)

\* drop_na() has just returned, right after an add_lag_features call with
\* a non-empty list of positive lags on a table without missing values
LagThenDrop ==
    /\ fe_call.op = "drop_na"
    /\ fe_lagcall.valid /\ fe_lagcall.complete /\ fe_lagcall.nlags > 0

LastRows(rows, cnt) == SubSeq(rows, Len(rows) - cnt + 1, Len(rows))

\* C6 as stated: the table then has no missing value and exactly
\* n - max(lags) rows, the last n - max(lags) rows of the input in order.
C6_LagThenDropRows ==
    LagThenDrop =>
        LET n == Len(fe_lagcall.rows) IN
        /\ Complete(fe_df)
        /\ NRows(fe_df) = n - fe_lagcall.maxlag
        /\ fe_df.idx = LastRows(fe_lagcall.rows, n - fe_lagcall.maxlag)

\* C6 amended: the table then has no missing value and n - max(lags) rows,
\* the last of the input in order, when max(lags) <= n, and no row at all
\* when max(lags) > n.
C6_LagThenDropRowsClamped ==
    LagThenDrop =>
        LET n    == Len(fe_lagcall.rows)
            left == IF fe_lagcall.maxlag <= n THEN n - fe_lagcall.maxlag ELSE 0
        IN
        /\ Complete(fe_df)
        /\ NRows(fe_df) = left
        /\ fe_df.idx = LastRows(fe_lagcall.rows, left)

\* three rows, largest lag 2: the one row left is the input's last
C6_LagThenDropWitness ==
    /\ LagThenDrop
    /\ fe_lagcall.rows = <<1, 2, 3>> /\ fe_lagcall.maxlag = 2 /\ fe_lagcall.nlags = 2
    /\ fe_df.idx = <<3>>

-----------------------------------------------------------------------------
(* Properties of the forecaster (SpecForecaster).                          *)

PredictReturned == fc_call.op = "predict_next"
TrainReturned == fc_call.op = "train_and_select_model" /\ fc_call.err = "none"

\* C3: predict_next fails as not trained exactly when no call of
\* train_and_select_model has returned before it; after one has, it returns
\* the model's prediction for features the model accepts.
C3_PredictNeedsTraining ==
    PredictReturned =>
        /\ (fc_call.err = "RuntimeError") <=> ~fc_completed
        /\ (fc_completed /\ fc_call.xok) => fc_call.err = "none"

\* the first candidate, in order, whose RMSE no candidate undercuts
IsBest(j) ==
    /\ fc_fit[j].k # "ValueError"
    /\ \A i \in 1 .. Len(Candidates) : ~XLess(fc_fit[i], fc_fit[j])
    /\ \A i \in 1 .. j - 1 : XLess(fc_fit[j], fc_fit[i])

\* C4: a call of train_and_select_model that returns gives back, and keeps
\* as the active model, the candidate of minimum RMSE, the earlier one on a
\* tie, together with that candidate's RMSE.
C4_SelectsMinimum ==
    TrainReturned =>
        \E j \in 1 .. Len(Candidates) :
            /\ IsBest(j)
            /\ fc_call.model = Candidates[j] /\ fc_call.rmse = fc_fit[j]
            /\ fc_self.model = Candidates[j]

\* C10: once train_and_select_model has returned, the stored model is a
\* registered candidate, the stored name is its name and the stored RMSE is
\* its RMSE on this table.
C10_SelectionResult ==
    fc_completed =>
        \E j \in 1 .. Len(Candidates) :
            /\ fc_self.model = Candidates[j]
            /\ fc_self.best_model_name = Candidates[j]
            /\ fc_self.rmse = fc_fit[j]

PrepareReturned == fc_call.op = "_prepare_data"

\* the leading floor(0.8 n) rows, then the rest
SplitIsLeading80 ==
    LET n_train == (80 * fc_n) \div 100 IN
    /\ fc_call.err = "none"
    /\ fc_call.split.train = [i \in 1 .. n_train |-> i]
    /\ fc_call.split.test = [i \in 1 .. fc_n - n_train |-> n_train + i]

\* C9 as stated: for every table _prepare_data returns the leading 80% of
\* the rows as the training partition and the trailing 20% as the test
\* partition, in order, disjoint and complete.
C9_SplitEveryTable == PrepareReturned => SplitIsLeading80

\* C9 amended: so it does for every table of at least two rows; with fewer
\* rows it fails with a ValueError.
C9_SplitFromTwoRows ==
    PrepareReturned =>
        IF fc_n >= 2 THEN SplitIsLeading80 ELSE fc_call.err = "ValueError"

\* six rows: four to train on, then two to test on
C9_SplitWitness ==
    /\ PrepareReturned /\ fc_n = 6
    /\ fc_call.split.train = <<1, 2, 3, 4>> /\ fc_call.split.test = <<5, 6>>

====
